---- MODULE Spec2Model ----
(***************************************************************************)
(* Model of FigmaToHtmlConverter (converter.ts): the traversal that emits  *)
(* markup and collects (className, node, parent) entries, the class-name   *)
(* table, and generateNodeStyles, the per-node style resolution.           *)
(*                                                                         *)
(* Numbers.  Input lengths are integers in thousandths of a pixel (8px is  *)
(* 8000); `Math.round(v * 100) / 100` is Round2, whose result is an        *)
(* integer in hundredths of a pixel (8px is 800).  Colour channels and     *)
(* opacities are in thousandths (1.0 is 1000).                             *)
(* Optional fields.  An optional number or record is a sequence: <<>> when *)
(* the field is undefined, <<v>> when it is set.  An optional string is    *)
(* Undef when the field is undefined.  Arrays (fills, strokes, effects,    *)
(* children) are sequences; for them the code treats undefined and [] the  *)
(* same way, so both are <<>>.                                             *)
(* Text.  A CSS declaration `  prop: value;` is the record                 *)
(* [prop |-> .., val |-> ..]; the value keeps the numbers the code prints. *)
(* The regular expressions of the code are modelled by what they accept on *)
(* the printed form of those numbers (see StartsNonZero).                  *)
(***************************************************************************)
EXTENDS Integers, Sequences, FiniteSets, TLC

Undef == "undefined"

\* `Math.round(v * 100) / 100`: nearest hundredth, halves toward +infinity.
Round2(v) == (v + 5) \div 10

\* JavaScript truthiness of an optional number: set, and not 0.
TruthyNum(o) == o # <<>> /\ o[1] # 0
\* `o || 0`
OrZero(o) == IF TruthyNum(o) THEN o[1] ELSE 0
\* JavaScript truthiness of an optional string: set, and not empty.
TruthyStr(s) == s # Undef /\ s # ""

D(p, v) == [prop |-> p, val |-> v]

\* styles.some / styles.find / styles.findIndex over declarations: the index
\* of the first declaration satisfying the test, 0 when there is none.
RECURSIVE FindIndexFrom(_, _, _)
FindIndexFrom(styles, props, i) ==
    IF i > Len(styles) THEN 0
    ELSE IF styles[i].prop \in props THEN i
    ELSE FindIndexFrom(styles, props, i + 1)

FindIndex(styles, props) == FindIndexFrom(styles, props, 1)

\* styles.splice(i, 1, ...repl)
Splice(styles, i, repl) ==
    SubSeq(styles, 1, i - 1) \o repl \o SubSeq(styles, i + 1, Len(styles))

-----------------------------------------------------------------------------
(* rgbaToString *)

Round255(c) == (c * 255 + 500) \div 1000

rgbaToString(color, opacity) ==
    LET r == Round255(color.r)
        g == Round255(color.g)
        b == Round255(color.b)
        a == IF opacity # <<>> THEN opacity[1] ELSE color.a
    IN IF a = 1000
       THEN [fn |-> "rgb", r |-> r, g |-> g, b |-> b, a |-> 1000]
       ELSE [fn |-> "rgba", r |-> r, g |-> g, b |-> b, a |-> a]

-----------------------------------------------------------------------------
(* generateLinearGradient *)

\* Math.atan2(dy, dx) * (180 / Math.PI), on the direction vectors the model
\* draws handles from (components in -1, 0, 1).
Atan2Deg(dy, dx) ==
    CASE dy = 0 /\ dx >= 0 -> 0
      [] dy = 0 /\ dx < 0 -> 180
      [] dy > 0 /\ dx = 0 -> 90
      [] dy < 0 /\ dx = 0 -> -90
      [] dy > 0 /\ dx > 0 -> 45
      [] dy > 0 /\ dx < 0 -> 135
      [] dy < 0 /\ dx > 0 -> -45
      [] OTHER -> -135

RECURSIVE GradientStopTerms(_)
GradientStopTerms(stops) ==
    IF stops = <<>> THEN <<>>
    ELSE <<[color |-> rgbaToString(Head(stops).color, <<>>),
            position |-> (Head(stops).position * 100 + 500) \div 1000]>>
         \o GradientStopTerms(Tail(stops))

\* Line 552, negated: the gradient has both its stops and its handle points.
GradientDrawn(fill) == fill.gradientStops # <<>> /\ fill.gradientHandlePositions # <<>>

generateLinearGradient(fill) ==
    IF ~GradientDrawn(fill)
    THEN [fn |-> "transparent"]
    ELSE LET handles == fill.gradientHandlePositions[1]
             angle == IF Len(handles) >= 2
                      THEN Atan2Deg(handles[2].y - handles[1].y,
                                    handles[2].x - handles[1].x) + 90
                      ELSE 90
         IN [fn |-> "linear-gradient", angle |-> angle,
             stops |-> GradientStopTerms(fill.gradientStops[1])]

-----------------------------------------------------------------------------
(* generateNodeStyles, block by block *)

\* An explicit height for every node, text included.
HeightDeclAlways(node, box) == <<D("height", <<Round2(box.height)>>)>>

\* A text node gets min-height, every other node an explicit height.
HeightDecl(node, box) ==
    IF node.type # "TEXT"
    THEN <<D("height", <<Round2(box.height)>>)>>
    ELSE <<D("min-height", <<Round2(box.height)>>)>>

\* parent is <<>> (undefined) or <<parentNode>>.
\* The tests that guard every read of an optional value: the bounding box
\* (194), the parent and its bounding box (201, 462), a solid paint's color
\* (245, 396), a gradient's stops (248), the first stroke and its color
\* (296-298), a shadow's offset and color (478, 484).
HasGeometry(node) == node.absoluteBoundingBox # <<>>

HasParentBox(parent) == parent # <<>> /\ parent[1].absoluteBoundingBox # <<>>

SolidFill(fill) == fill.type = "SOLID" /\ fill.color # <<>>

GradientFill(fill) == fill.type = "GRADIENT_LINEAR" /\ fill.gradientStops # <<>>

StrokeDrawn(node) ==
    /\ Len(node.strokes) > 0
    /\ TruthyNum(node.strokeWeight)
    /\ node.strokes[1].visible
    /\ node.strokes[1].color # <<>>

ShadowApplies(effect) == effect.offset # <<>> /\ effect.color # <<>>

PositionAndSize(node, parent) ==
    IF ~HasGeometry(node) THEN <<>>
    ELSE
      LET box == node.absoluteBoundingBox[1]
          hasParentBox == HasParentBox(parent)
          parentBox == parent[1].absoluteBoundingBox[1]
          left0 == IF hasParentBox THEN box.x - parentBox.x ELSE box.x
          top0 == IF hasParentBox THEN box.y - parentBox.y ELSE box.y
          left == IF hasParentBox /\ TruthyNum(parent[1].paddingLeft)
                  THEN left0 - parent[1].paddingLeft[1] ELSE left0
          top == IF hasParentBox /\ TruthyNum(parent[1].paddingTop)
                 THEN top0 - parent[1].paddingTop[1] ELSE top0
          parentUsesAutoLayout == parent # <<>> /\ TruthyStr(parent[1].layoutMode)
          position ==
            IF parent = <<>> THEN <<D("position", <<"relative">>)>>
            ELSE IF parentUsesAutoLayout THEN <<D("position", <<"relative">>)>>
            ELSE <<D("position", <<"absolute">>),
                   D("left", <<Round2(left)>>),
                   D("top", <<Round2(top)>>)>>
      IN position \o <<D("width", <<Round2(box.width)>>)>> \o HeightDecl(node, box)

Fills(node) ==
    IF Len(node.fills) = 0 THEN <<>>
    ELSE LET fill == node.fills[1]
         IN IF ~fill.visible THEN <<>>
            ELSE IF SolidFill(fill)
            THEN <<D("background-color", <<rgbaToString(fill.color[1], fill.opacity)>>)>>
            ELSE IF GradientFill(fill)
            THEN <<D("background", <<generateLinearGradient(fill)>>)>>
            ELSE <<>>

\* The printed form of a rounded number v (hundredths) matches `[^0][0-9.]*`
\* exactly when its first character is not "0": v >= 1 prints with a nonzero
\* leading digit, 0 < v < 1 prints as "0.xx", 0 prints as "0", and a negative
\* v prints with a leading "-" followed by digits and dots.
StartsNonZero(v) == v >= 100 \/ v < 0

\* /^[^0][0-9.]*px [^0][0-9.]*px 0px 0px$/ on radiiString
MatchesTopOnly(radii) ==
    /\ Len(radii) = 4
    /\ StartsNonZero(radii[1]) /\ StartsNonZero(radii[2])
    /\ radii[3] = 0 /\ radii[4] = 0

\* /^0px 0px [^0][0-9.]*px [^0][0-9.]*px$/ on radiiString
MatchesBottomOnly(radii) ==
    /\ Len(radii) = 4
    /\ radii[1] = 0 /\ radii[2] = 0
    /\ StartsNonZero(radii[3]) /\ StartsNonZero(radii[4])

RoundAll(s) == [i \in 1..Len(s) |-> Round2(s[i])]

\* radiiString is the sequence of printed numbers: <<>> is the empty
\* string, <<r>> is `${r}px`, <<tl, tr, br, bl>> is the four-value form.
UniformRadiusApplies(node) == node.cornerRadius # <<>> /\ node.cornerRadius[1] > 0

FourRadiiString(r) ==
    IF r[1] # r[2] \/ r[2] # r[3] \/ r[3] # r[4] \/ r[1] # 0 THEN r ELSE <<>>

BorderRadiusInfo(node) ==
    LET raw ==
          IF node.rectangleCornerRadii # <<>>
          THEN LET radii == node.rectangleCornerRadii[1]
               IN IF Len(radii) = 4
                  THEN LET r == RoundAll(radii)
                       IN [hasTopRadius |-> (r[1] > 0 \/ r[2] > 0),
                           hasBottomRadius |-> (r[3] > 0 \/ r[4] > 0),
                           radiiString |-> FourRadiiString(r)]
                  ELSE [hasTopRadius |-> FALSE, hasBottomRadius |-> FALSE,
                        radiiString |-> <<>>]
          ELSE IF UniformRadiusApplies(node)
          THEN [hasTopRadius |-> TRUE, hasBottomRadius |-> TRUE,
                radiiString |-> <<Round2(node.cornerRadius[1])>>]
          ELSE [hasTopRadius |-> FALSE, hasBottomRadius |-> FALSE,
                radiiString |-> <<>>]
    IN IF raw.radiiString = <<>> THEN raw
       ELSE IF MatchesTopOnly(raw.radiiString)
       THEN [raw EXCEPT !.hasTopRadius = TRUE, !.hasBottomRadius = FALSE]
       ELSE IF MatchesBottomOnly(raw.radiiString)
       THEN [raw EXCEPT !.hasTopRadius = FALSE, !.hasBottomRadius = TRUE]
       ELSE raw

Border(side, weight, color) == D(side, <<weight, "solid", color>>)

\* Lines 304-326: the borders of an INSIDE stroke; one side is left out when
\* only the top or only the bottom corners are flagged as rounded.
InsideBordersSwapped(info, weight, color) ==
    IF info.hasTopRadius /\ ~info.hasBottomRadius
    THEN <<Border("border-left", weight, color),
           Border("border-right", weight, color),
           Border("border-bottom", weight, color)>>
    ELSE IF ~info.hasTopRadius /\ info.hasBottomRadius
    THEN <<Border("border-left", weight, color),
           Border("border-right", weight, color),
           Border("border-top", weight, color)>>
    ELSE <<Border("border", weight, color)>>

InsideBorders(info, weight, color) ==
    IF info.hasTopRadius /\ ~info.hasBottomRadius
    THEN <<Border("border-left", weight, color),
           Border("border-right", weight, color),
           Border("border-top", weight, color)>>
    ELSE IF ~info.hasTopRadius /\ info.hasBottomRadius
    THEN <<Border("border-left", weight, color),
           Border("border-right", weight, color),
           Border("border-bottom", weight, color)>>
    ELSE <<Border("border", weight, color)>>

\* Line 332: `box-shadow: 0 0 0 ${weight}px ${color}`.
StrokeRingBlurred(weight, color) ==
    D("box-shadow", <<[inset |-> FALSE, x |-> 0, y |-> 0,
                       blur |-> weight, spread |-> <<>>,
                       color |-> color]>>)

StrokeRing(weight, color) ==
    D("box-shadow", <<[inset |-> FALSE, x |-> 0, y |-> 0,
                       blur |-> 0, spread |-> <<weight>>,
                       color |-> color]>>)

Strokes(node, info) ==
    IF ~StrokeDrawn(node) THEN <<>>
    ELSE
      LET stroke == node.strokes[1]
          color == rgbaToString(stroke.color[1], stroke.opacity)
          weight == Round2(node.strokeWeight[1])
          align == IF TruthyStr(node.strokeAlign) THEN node.strokeAlign ELSE "INSIDE"
      IN IF align = "INSIDE"
         THEN <<D("box-sizing", <<"border-box">>)>> \o
              InsideBorders(info, weight, color)
         ELSE IF align = "CENTER"
         THEN <<Border("border", weight, color)>>
         ELSE <<StrokeRing(weight, color)>>

ApplyBorderRadius(info) ==
    IF info.radiiString # <<>> THEN <<D("border-radius", info.radiiString)>> ELSE <<>>

Opacity(node) ==
    IF node.opacity # <<>> /\ node.opacity[1] < 1000
    THEN <<D("opacity", node.opacity)>> ELSE <<>>

\* String.prototype.toLowerCase on the alignment names.
ToLowerCase(s) ==
    CASE s = "LEFT" -> "left"
      [] s = "CENTER" -> "center"
      [] s = "RIGHT" -> "right"
      [] s = "JUSTIFIED" -> "justified"
      [] OTHER -> s

\* styles.some(s => s.includes('display: flex'))
HasDisplayFlex(styles) ==
    \E i \in 1..Len(styles) : styles[i].prop = "display" /\ styles[i].val = <<"flex">>

TextMetrics(textStyle) ==
    <<D("font-family", <<textStyle.fontFamily, "sans-serif">>),
      D("font-size", <<Round2(textStyle.fontSize)>>),
      D("font-weight", <<textStyle.fontWeight>>)>>
    \o (IF TruthyNum(textStyle.letterSpacing)
        THEN <<D("letter-spacing", <<Round2(textStyle.letterSpacing[1])>>)>>
        ELSE <<>>)
    \o (IF TruthyNum(textStyle.lineHeightPx)
        THEN <<D("line-height", <<"px", Round2(textStyle.lineHeightPx[1])>>)>>
        ELSE IF TruthyNum(textStyle.lineHeightPercent)
        THEN <<D("line-height", <<"ratio", (textStyle.lineHeightPercent[1] + 500) \div 1000>>)>>
        ELSE <<>>)

TextAlignHorizontal(textStyle, styles) ==
    IF ~TruthyStr(textStyle.textAlignHorizontal) THEN styles
    ELSE LET align == ToLowerCase(textStyle.textAlignHorizontal)
             s1 == Append(styles, D("text-align", <<align>>))
         IN IF align = "center"
            THEN (IF HasDisplayFlex(s1) THEN s1 ELSE Append(s1, D("display", <<"flex">>)))
                 \o <<D("justify-content", <<"center">>)>>
            ELSE s1

\* display: flex pushed without looking for an earlier one.
TextAlignVerticalUnguarded(textStyle, styles) ==
    IF ~TruthyStr(textStyle.textAlignVertical) THEN styles
    ELSE LET vAlign == textStyle.textAlignVertical
             s1 == Append(styles, D("display", <<"flex">>))
         IN IF vAlign = "TOP" THEN Append(s1, D("align-items", <<"flex-start">>))
            ELSE IF vAlign = "CENTER" THEN Append(s1, D("align-items", <<"center">>))
            ELSE IF vAlign = "BOTTOM" THEN Append(s1, D("align-items", <<"flex-end">>))
            ELSE s1

TextAlignVertical(textStyle, styles) ==
    IF ~TruthyStr(textStyle.textAlignVertical) THEN styles
    ELSE LET vAlign == textStyle.textAlignVertical
             s1 == IF HasDisplayFlex(styles) THEN styles
                   ELSE Append(styles, D("display", <<"flex">>))
         IN IF vAlign = "TOP" THEN Append(s1, D("align-items", <<"flex-start">>))
            ELSE IF vAlign = "CENTER" THEN Append(s1, D("align-items", <<"center">>))
            ELSE IF vAlign = "BOTTOM" THEN Append(s1, D("align-items", <<"flex-end">>))
            ELSE s1

\* The text block entered for every text node.
TextBlockAppliesAnyText(node) == node.type = "TEXT"

\* The text block tests node.style, so it is skipped for a text node
\* without a style block.
TextBlockApplies(node) == node.type = "TEXT" /\ node.style # <<>>

TextColor(node, styles) ==
    IF Len(node.fills) = 0 THEN styles
    ELSE LET fill == node.fills[1]
         IN IF SolidFill(fill)
            THEN LET s1 == Append(styles, D("color", <<rgbaToString(fill.color[1], fill.opacity)>>))
                     bgIndex == FindIndex(s1, {"background-color"})
                 IN IF bgIndex # 0 THEN Splice(s1, bgIndex, <<>>) ELSE s1
            ELSE styles

TextStyles(node, styles) ==
    IF ~TextBlockApplies(node) THEN styles
    ELSE LET textStyle == node.style[1]
             s1 == styles \o TextMetrics(textStyle)
             s2 == TextAlignHorizontal(textStyle, s1)
             s3 == TextAlignVertical(textStyle, s2)
             s4 == TextColor(node, s3)
         IN s4 \o <<D("white-space", <<"pre-wrap">>), D("word-wrap", <<"break-word">>)>>

PrimaryAlignMap(a) ==
    CASE a = "MIN" -> "flex-start"
      [] a = "CENTER" -> "center"
      [] a = "MAX" -> "flex-end"
      [] a = "SPACE_BETWEEN" -> "space-between"
      [] OTHER -> "flex-start"

CounterAlignMap(a) ==
    CASE a = "MIN" -> "flex-start"
      [] a = "CENTER" -> "center"
      [] a = "MAX" -> "flex-end"
      [] OTHER -> "flex-start"

LayoutFlex(node) ==
    <<D("display", <<"flex">>)>>
    \o (IF node.layoutMode = "HORIZONTAL" THEN <<D("flex-direction", <<"row">>)>>
        ELSE IF node.layoutMode = "VERTICAL" THEN <<D("flex-direction", <<"column">>)>>
        ELSE <<>>)
    \o (IF TruthyNum(node.itemSpacing)
        THEN <<D("gap", <<Round2(node.itemSpacing[1])>>)>> ELSE <<>>)
    \o (IF TruthyNum(node.paddingLeft) \/ TruthyNum(node.paddingRight)
           \/ TruthyNum(node.paddingTop) \/ TruthyNum(node.paddingBottom)
        THEN <<D("padding", <<Round2(OrZero(node.paddingTop)), Round2(OrZero(node.paddingRight)),
                              Round2(OrZero(node.paddingBottom)), Round2(OrZero(node.paddingLeft))>>)>>
        ELSE <<>>)
    \o (IF TruthyStr(node.primaryAxisAlignItems)
        THEN <<D("justify-content", <<PrimaryAlignMap(node.primaryAxisAlignItems)>>)>>
        ELSE <<>>)
    \o (IF TruthyStr(node.counterAxisAlignItems)
        THEN <<D("align-items", <<CounterAlignMap(node.counterAxisAlignItems)>>)>>
        ELSE <<>>)

\* The forced absolute position of an auto-layout container that has a
\* parent and no position declaration yet.
LayoutPosition(node, parent, styles) ==
    IF parent = <<>> THEN styles
    ELSE IF FindIndex(styles, {"position"}) # 0 THEN styles
    ELSE
      LET s1 == <<D("position", <<"absolute">>)>> \o styles
      IN IF HasGeometry(node) /\ HasParentBox(parent)
         THEN LET parentBox == parent[1].absoluteBoundingBox[1]
                  left == Round2(node.absoluteBoundingBox[1].x - parentBox.x)
                  top == Round2(node.absoluteBoundingBox[1].y - parentBox.y)
                  s2 == IF left # 0
                        THEN SubSeq(s1, 1, 1) \o <<D("left", <<left>>)>> \o SubSeq(s1, 2, Len(s1))
                        ELSE s1
                  at == IF left # 0 THEN 2 ELSE 1
              IN IF top # 0
                 THEN SubSeq(s2, 1, at) \o <<D("top", <<top>>)>> \o SubSeq(s2, at + 1, Len(s2))
                 ELSE s2
         ELSE s1

Layout(node, parent, styles) ==
    IF ~TruthyStr(node.layoutMode) THEN styles
    ELSE LayoutPosition(node, parent, styles \o LayoutFlex(node))

ShadowTerm(effect, inset) ==
    [inset |-> inset,
     x |-> Round2(OrZero(effect.offset[1].x)),
     y |-> Round2(OrZero(effect.offset[1].y)),
     blur |-> Round2(OrZero(effect.radius)),
     spread |-> <<>>,
     color |-> rgbaToString(effect.color[1], <<>>)]

RECURSIVE Shadows(_)
Shadows(effects) ==
    IF effects = <<>> THEN <<>>
    ELSE LET effect == Head(effects)
             term == IF ~effect.visible THEN <<>>
                     ELSE IF effect.type = "DROP_SHADOW" /\ ShadowApplies(effect)
                     THEN <<ShadowTerm(effect, FALSE)>>
                     ELSE IF effect.type = "INNER_SHADOW" /\ ShadowApplies(effect)
                     THEN <<ShadowTerm(effect, TRUE)>>
                     ELSE <<>>
         IN term \o Shadows(Tail(effects))

Effects(node) ==
    IF Len(node.effects) > 0 /\ Len(Shadows(node.effects)) > 0
    THEN <<D("box-shadow", Shadows(node.effects))>> ELSE <<>>

Clipping(node) ==
    IF node.clipsContent THEN <<D("overflow", <<"hidden">>)>> ELSE <<>>

\* /^\s*border:\s*\d/ : a uniform border declaration whose printed weight
\* starts with a digit.
IsBorderLine(d) == d.prop = "border" /\ d.val[1] >= 0

RECURSIVE FindBorderLineFrom(_, _)
FindBorderLineFrom(styles, i) ==
    IF i > Len(styles) THEN 0
    ELSE IF IsBorderLine(styles[i]) THEN i
    ELSE FindBorderLineFrom(styles, i + 1)

\* /border-radius:\s*[^0\s][0-9.]*px\s+[^0\s][0-9.]*px\s+0px\s+0px/
RadiusLineTopOnly(d) ==
    /\ Len(d.val) = 4
    /\ StartsNonZero(d.val[1]) /\ StartsNonZero(d.val[2])
    /\ d.val[3] = 0 /\ d.val[4] = 0

\* Post-process: a uniform border next to a top-rounded-only border-radius
\* is replaced, in place, by left, right and top borders.
PostProcess(styles) ==
    LET radiusIndex == FindIndex(styles, {"border-radius"})
        borderIndex == FindBorderLineFrom(styles, 1)
    IN IF radiusIndex # 0 /\ borderIndex # 0 /\ RadiusLineTopOnly(styles[radiusIndex])
       THEN LET weight == styles[borderIndex].val[1]
                color == styles[borderIndex].val[3]
            IN Splice(styles, borderIndex,
                      <<Border("border-left", weight, color),
                        Border("border-right", weight, color),
                        Border("border-top", weight, color)>>)
       ELSE styles

\* Lines 191-409: the list when the layout block is reached.
StylesBeforeLayout(node, parent) ==
    LET info == BorderRadiusInfo(node)
        s1 == PositionAndSize(node, parent)
              \o Fills(node)
              \o Strokes(node, info)
              \o ApplyBorderRadius(info)
              \o Opacity(node)
    IN TextStyles(node, s1)

\* The declaration list of one node, in the order of the returned text.
generateNodeStyles(node, parent) ==
    LET s2 == StylesBeforeLayout(node, parent)
        s3 == Layout(node, parent, s2)
        s4 == s3 \o Effects(node) \o Clipping(node)
    IN PostProcess(s4)

\* generateNodeStyles throws a TypeError exactly when it reads a field of
\* a value that is undefined. Each disjunct is one group of reads: the
\* condition under which the code performs it, and the value being absent.
\* (The read at 462-464 also needs that no position was declared; leaving
\* that out only adds reads.)
Raises(node, parent) ==
    \/ HasGeometry(node) /\ node.absoluteBoundingBox = <<>>
    \/ /\ HasGeometry(node) /\ HasParentBox(parent)
       /\ (parent = <<>> \/ parent[1].absoluteBoundingBox = <<>>)
    \/ /\ Len(node.fills) > 0 /\ node.fills[1].visible
       /\ LET fill == node.fills[1]
          IN \/ SolidFill(fill) /\ fill.color = <<>>
             \/ /\ ~SolidFill(fill) /\ GradientFill(fill) /\ GradientDrawn(fill)
                /\ (fill.gradientStops = <<>> \/ fill.gradientHandlePositions = <<>>)
    \/ StrokeDrawn(node) /\ (Len(node.strokes) = 0 \/ node.strokes[1].color = <<>>)
    \/ TextBlockApplies(node) /\ node.style = <<>>
    \/ /\ TextBlockApplies(node) /\ Len(node.fills) > 0
       /\ SolidFill(node.fills[1]) /\ node.fills[1].color = <<>>
    \/ /\ TruthyStr(node.layoutMode) /\ parent # <<>>
       /\ HasGeometry(node) /\ HasParentBox(parent)
       /\ (node.absoluteBoundingBox = <<>> \/ parent[1].absoluteBoundingBox = <<>>)
    \/ \E i \in 1..Len(node.effects) :
          LET effect == node.effects[i]
          IN /\ effect.visible
             /\ effect.type \in {"DROP_SHADOW", "INNER_SHADOW"}
             /\ ShadowApplies(effect)
             /\ (effect.offset = <<>> \/ effect.color = <<>>)

\* A rule block for every entry, empty or not.
RuleEmittedAlways(styles) == TRUE

\* generateCssFromNodes emits a rule block only `if (styles)`: the joined
\* text of a declaration list is empty exactly when the list is empty.
RuleEmitted(styles) == styles # <<>>

-----------------------------------------------------------------------------
(* Scene nodes *)

\* A node with every optional field undefined.  children holds the indices
\* of the child nodes in the document (the sequence of all nodes).
BareNode(id, type) ==
    [id |-> id, type |-> type, visible |-> TRUE, children |-> <<>>,
     characters |-> <<>>,
     absoluteBoundingBox |-> <<>>,
     fills |-> <<>>, strokes |-> <<>>, strokeWeight |-> <<>>, strokeAlign |-> Undef,
     rectangleCornerRadii |-> <<>>, cornerRadius |-> <<>>,
     opacity |-> <<>>, style |-> <<>>,
     layoutMode |-> Undef, itemSpacing |-> <<>>,
     paddingLeft |-> <<>>, paddingRight |-> <<>>, paddingTop |-> <<>>, paddingBottom |-> <<>>,
     primaryAxisAlignItems |-> Undef, counterAxisAlignItems |-> Undef,
     effects |-> <<>>, clipsContent |-> FALSE]

Box(x, y, w, h) == <<[x |-> x, y |-> y, width |-> w, height |-> h]>>

Color(r, g, b, a) == [r |-> r, g |-> g, b |-> b, a |-> a]

Paint(type) ==
    [type |-> type, visible |-> TRUE, color |-> <<>>, opacity |-> <<>>,
     gradientStops |-> <<>>, gradientHandlePositions |-> <<>>]

SolidPaint(color) == [Paint("SOLID") EXCEPT !.color = <<color>>]

Effect(type) ==
    [type |-> type, visible |-> TRUE, radius |-> <<>>, color |-> <<>>, offset |-> <<>>]

TypeStyle ==
    [fontFamily |-> "Inter", fontWeight |-> 400, fontSize |-> 16000,
     letterSpacing |-> <<>>, lineHeightPx |-> <<>>, lineHeightPercent |-> <<>>,
     textAlignHorizontal |-> Undef, textAlignVertical |-> Undef]

-----------------------------------------------------------------------------
(* escapeHtml *)

EscapeChar(ch) ==
    CASE ch = "&" -> "&amp;"
      [] ch = "<" -> "&lt;"
      [] ch = ">" -> "&gt;"
      [] ch = "\"" -> "&quot;"
      [] ch = "'" -> "&#039;"
      [] OTHER -> ch

escapeHtml(text) == [i \in 1..Len(text) |-> EscapeChar(text[i])]

-----------------------------------------------------------------------------
(* The converter: instance fields, running calls, results *)

VARIABLES
    doc,           \* the input: the sequence of scene nodes, node 1 is the root
    cssClasses,    \* this.cssClasses: node id -> class number
    classCounter,  \* this.classCounter
    calls,         \* the convertWithStyles calls on the JavaScript stack, innermost last
    results,       \* what the finished calls returned, in order of return
    started,       \* number of top-level calls made so far
    sNode,         \* single call: the node given to generateNodeStyles
    sParent,       \* single call: its parent, <<>> when undefined
    sStyles,       \* single call: the declaration list returned
    sDone          \* single call: generateNodeStyles has returned

vars == <<doc, cssClasses, classCounter, calls, results, started,
          sNode, sParent, sStyles, sDone>>

convVars == <<doc, cssClasses, classCounter, calls, results, started>>
styleVars == <<sNode, sParent, sStyles, sDone>>

\* The types of the two transparent arms and of the container arm of the
\* switch in generateHtmlWithStyles; TEXT has its own arm and every other
\* type falls to `default`.
WrapperTypes == {"DOCUMENT", "CANVAS"}
ContainerTypes == {"RECTANGLE", "ELLIPSE", "VECTOR", "FRAME", "GROUP", "INSTANCE", "COMPONENT"}

\* No visibility test at all.
IsHiddenNever(node) == FALSE

\* `node.visible === false`
IsHidden(node) == node.visible = FALSE

\* `figma-node-${k}` is the number k.
\* getClassName: the class of node.id, created on first use.
getClassName(node, table, counter) ==
    IF node.id \in DOMAIN table
    THEN [className |-> table[node.id], table |-> table, counter |-> counter]
    ELSE [className |-> counter,
          table |-> [i \in DOMAIN table \cup {node.id} |->
                        IF i = node.id THEN counter ELSE table[i]],
          counter |-> counter + 1]

EmptyTable == [i \in {} |-> 0]

\* The parent argument the arm of node's type passes to the calls for the
\* node's children: a container passes itself, the DOCUMENT/CANVAS arm
\* passes nothing, the default arm passes its own parent on.
ChildParent(node, n, parent) ==
    IF node.type \in WrapperTypes THEN 0
    ELSE IF node.type \in ContainerTypes THEN n
    ELSE parent

\* The children visited last to first.
ChildAtReversed(node, k) == node.children[Len(node.children) + 1 - k]

\* node.children.map visits the children in array order.
ChildAt(node, k) == node.children[k]

\* The depth the arm passes to the children.
ChildDepth(node, depth) ==
    IF node.type \in ContainerTypes THEN depth + 1 ELSE depth

\* The entry pushed on nodeStyles.
StyleEntry(className, n, parent) ==
    [className |-> className, node |-> n, parent |-> parent]

\* Markup is the sequence of its tags in text order.  `node` records which
\* scene node produced the tag; it is not part of the text.
OpenTag(className, depth, n) ==
    [k |-> "open", className |-> className, depth |-> depth, text |-> <<>>, node |-> n]
TextTag(text, n) ==
    [k |-> "text", className |-> 0, depth |-> 0, text |-> text, node |-> n]
CloseTag(depth, n) ==
    [k |-> "close", className |-> 0, depth |-> depth, text |-> <<>>, node |-> n]

Frame(n, depth, parent) ==
    [n |-> n, depth |-> depth, parent |-> parent, phase |-> "enter", next |-> 1]

NewCall(root) ==
    [root |-> root, frames |-> <<Frame(root, 0, 0)>>, nodeStyles |-> <<>>, html |-> <<>>]

Top(s) == s[Len(s)]
Pop(s) == SubSeq(s, 1, Len(s) - 1)
ReplaceTop(s, x) == [s EXCEPT ![Len(s)] = x]

Running == calls # <<>> /\ Top(calls).frames # <<>>

-----------------------------------------------------------------------------
(* Input documents *)

MaxCalls == 2
MaxReentry == 1

NodeIds == <<"1:1", "1:2", "1:3", "1:4">>

\* Child lists of the documents: a root whose children are node 3 and then
\* node 2 (which has the child 4), and a chain four deep.
Shapes == { << <<3, 2>>, <<4>>, <<>>, <<>> >>,
            << <<2>>, <<3>>, <<4>>, <<>> >> }

NodeBox(n) == Box(n * 10000, n * 5000, 100000 - n * 10000, 40000 + n * 1000)

Kinds == 1..6

\* The node kinds documents are built from: a wrapper (DOCUMENT at the
\* root, CANVAS below), an unrecognized type, a frame with geometry, a
\* group with no optional field, a text node, and a hidden frame.
KindNode(k, n, id) ==
    CASE k = 1 -> BareNode(id, IF n = 1 THEN "DOCUMENT" ELSE "CANVAS")
      [] k = 2 -> BareNode(id, "SLICE")
      [] k = 3 -> [BareNode(id, "FRAME") EXCEPT !.absoluteBoundingBox = NodeBox(n)]
      [] k = 4 -> BareNode(id, "GROUP")
      [] k = 5 -> [BareNode(id, "TEXT") EXCEPT !.absoluteBoundingBox = NodeBox(n),
                                               !.characters = <<"a", "&">>,
                                               !.style = <<TypeStyle>>]
      [] OTHER -> [BareNode(id, "FRAME") EXCEPT !.absoluteBoundingBox = NodeBox(n),
                                                !.visible = FALSE]

\* Node ids are distinct, except that dup = <<i, j>> gives node j the id of
\* node i.
DupChoices == {<<>>, <<1, 2>>, <<2, 4>>}
IdOf(n, dup) == IF dup # <<>> /\ dup[2] = n THEN NodeIds[dup[1]] ELSE NodeIds[n]

MkDoc(shape, kind, dup) ==
    [n \in 1..Len(shape) |->
        [KindNode(kind[n], n, IdOf(n, dup)) EXCEPT !.children = shape[n]]]

Docs == {MkDoc(shape, kind, dup) :
            shape \in Shapes, kind \in [1..4 -> Kinds],
            dup \in DupChoices}

ParentOpt(p) == IF p = 0 THEN <<>> ELSE <<doc[p]>>

-----------------------------------------------------------------------------
(* convertWithStyles, step by step *)

\* Lines 104-109: clear the table, reset the counter, start the traversal.
BeginCall(root) ==
    /\ cssClasses' = EmptyTable
    /\ classCounter' = 0
    /\ calls' = Append(calls, NewCall(root))

ConvertWithStyles ==
    /\ calls = <<>>
    /\ started < MaxCalls
    /\ BeginCall(1)
    /\ started' = started + 1
    /\ UNCHANGED <<doc, results>>
    /\ UNCHANGED styleVars

\* A call made while another call on the same converter is reading
\* node.children (an accessor property of the input can run code).
Reenter ==
    /\ Running
    /\ Len(calls) = 1
    /\ Cardinality({i \in 1..Len(results) : results[i].level > 1}) < MaxReentry
    /\ LET f == Top(Top(calls).frames)
       IN /\ f.phase = "kids"
          /\ f.next = 1
          /\ \E m \in {doc[f.n].children[i] : i \in 1..Len(doc[f.n].children)} :
                BeginCall(m)
    /\ UNCHANGED <<doc, results, started>>
    /\ UNCHANGED styleVars

\* generateHtmlWithStyles up to the recursive calls for the children.
EnterNode ==
    /\ Running
    /\ LET c == Top(calls)
           f == Top(c.frames)
           node == doc[f.n]
           hasKids == Len(node.children) > 0
           g == getClassName(node, cssClasses, classCounter)
           pushed == Append(c.nodeStyles, StyleEntry(g.className, f.n, f.parent))
           toKids == ReplaceTop(c.frames, [f EXCEPT !.phase = "kids"])
       IN /\ f.phase = "enter"
          /\ IF IsHidden(node)
             THEN /\ calls' = ReplaceTop(calls, [c EXCEPT !.frames = Pop(c.frames)])
                  /\ UNCHANGED <<cssClasses, classCounter>>
             ELSE IF node.type \in WrapperTypes
             THEN /\ calls' = ReplaceTop(calls,
                        [c EXCEPT !.frames = IF hasKids THEN toKids ELSE Pop(c.frames)])
                  /\ UNCHANGED <<cssClasses, classCounter>>
             ELSE IF node.type = "TEXT"
             THEN /\ cssClasses' = g.table
                  /\ classCounter' = g.counter
                  /\ calls' = ReplaceTop(calls,
                        [c EXCEPT !.frames = Pop(c.frames),
                                  !.nodeStyles = pushed,
                                  !.html = c.html \o <<OpenTag(g.className, f.depth, f.n),
                                                       TextTag(escapeHtml(node.characters), f.n),
                                                       CloseTag(0, f.n)>>])
             ELSE IF node.type \in ContainerTypes
             THEN /\ cssClasses' = g.table
                  /\ classCounter' = g.counter
                  /\ calls' = ReplaceTop(calls,
                        [c EXCEPT !.frames = IF hasKids THEN toKids ELSE Pop(c.frames),
                                  !.nodeStyles = pushed,
                                  !.html = c.html \o <<OpenTag(g.className, f.depth, f.n)>>
                                           \o (IF hasKids THEN <<>> ELSE <<CloseTag(0, f.n)>>)])
             ELSE /\ calls' = ReplaceTop(calls,
                        [c EXCEPT !.frames = IF hasKids THEN toKids ELSE Pop(c.frames)])
                  /\ UNCHANGED <<cssClasses, classCounter>>
    /\ UNCHANGED <<doc, results, started>>
    /\ UNCHANGED styleVars

\* The callback of node.children.map for the next child.
VisitChild ==
    /\ Running
    /\ LET c == Top(calls)
           f == Top(c.frames)
           node == doc[f.n]
       IN /\ f.phase = "kids"
          /\ f.next <= Len(node.children)
          /\ calls' = ReplaceTop(calls,
                [c EXCEPT !.frames =
                    Append(ReplaceTop(c.frames, [f EXCEPT !.next = f.next + 1]),
                           Frame(ChildAt(node, f.next),
                                 ChildDepth(node, f.depth),
                                 ChildParent(node, f.n, f.parent)))])
    /\ UNCHANGED <<doc, cssClasses, classCounter, results, started>>
    /\ UNCHANGED styleVars

\* After the last child: a container closes its element, a transparent
\* node returns the joined markup of its children.
LeaveNode ==
    /\ Running
    /\ LET c == Top(calls)
           f == Top(c.frames)
           node == doc[f.n]
       IN /\ f.phase = "kids"
          /\ f.next > Len(node.children)
          /\ calls' = ReplaceTop(calls,
                [c EXCEPT !.frames = Pop(c.frames),
                          !.html = IF node.type \in ContainerTypes
                                   THEN Append(c.html, CloseTag(f.depth, f.n))
                                   ELSE c.html])
    /\ UNCHANGED <<doc, cssClasses, classCounter, results, started>>
    /\ UNCHANGED styleVars

\* generateCssFromNodes: the rule blocks after the fixed `*` and `body`
\* blocks, one per entry whose style text is not empty.
RECURSIVE RuleBlocks(_)
RuleBlocks(nodeStyles) ==
    IF nodeStyles = <<>> THEN <<>>
    ELSE LET e == Head(nodeStyles)
             styles == generateNodeStyles(doc[e.node], ParentOpt(e.parent))
         IN (IF RuleEmitted(styles)
             THEN <<[className |-> e.className, styles |-> styles, node |-> e.node]>>
             ELSE <<>>)
            \o RuleBlocks(Tail(nodeStyles))

generateCssFromNodes(nodeStyles) == RuleBlocks(nodeStyles)

\* An exception thrown by generateNodeStyles for one entry leaves the loop
\* of generateCssFromNodes and convertWithStyles: nothing catches it.
CssRaises(nodeStyles) ==
    \E i \in 1..Len(nodeStyles) :
        Raises(doc[nodeStyles[i].node], ParentOpt(nodeStyles[i].parent))

\* Lines 110-112: build the stylesheet and return, or end with the
\* exception of generateCssFromNodes.
Return ==
    /\ calls # <<>>
    /\ Top(calls).frames = <<>>
    /\ LET c == Top(calls)
       IN results' = Append(results,
                        IF CssRaises(c.nodeStyles)
                        THEN [root |-> c.root, level |-> Len(calls),
                              outcome |-> "TypeError",
                              html |-> <<>>, css |-> <<>>,
                              nodeStyles |-> c.nodeStyles]
                        ELSE [root |-> c.root, level |-> Len(calls),
                              outcome |-> "returned",
                              html |-> c.html,
                              css |-> generateCssFromNodes(c.nodeStyles),
                              nodeStyles |-> c.nodeStyles])
    /\ calls' = Pop(calls)
    /\ UNCHANGED <<doc, cssClasses, classCounter, started>>
    /\ UNCHANGED styleVars

NoSingleCall ==
    /\ sNode = BareNode("0:0", "FRAME")
    /\ sParent = <<>>
    /\ sStyles = <<>>
    /\ sDone = FALSE

ConvInit(docs) ==
    /\ doc \in docs
    /\ cssClasses = EmptyTable
    /\ classCounter = 0
    /\ calls = <<>>
    /\ results = <<>>
    /\ started = 0

Init == ConvInit(Docs) /\ NoSingleCall

Next == ConvertWithStyles \/ EnterNode \/ VisitChild \/ LeaveNode \/ Return

Spec == Init /\ [][Next]_vars

\* The same converter when the input can call back into it: documents of
\* wrappers, frames and text nodes with distinct ids.
DocsReentrant == {MkDoc(shape, kind, <<>>) : shape \in Shapes, kind \in [1..4 -> {1, 3, 5}]}

InitReentrant == ConvInit(DocsReentrant) /\ NoSingleCall

NextReentrant == ConvertWithStyles \/ Reenter \/ EnterNode \/ VisitChild \/ LeaveNode \/ Return

SpecReentrant == InitReentrant /\ [][NextReentrant]_vars

-----------------------------------------------------------------------------
(* Structure of the input document, for stating the properties *)

Nodes == 1..Len(doc)
KidSet(m) == {doc[m].children[i] : i \in 1..Len(doc[m].children)}
ParentOf(n) == IF \E m \in Nodes : n \in KidSet(m)
               THEN CHOOSE m \in Nodes : n \in KidSet(m) ELSE 0

RECURSIVE AncestorsOf(_)
AncestorsOf(n) == IF ParentOf(n) = 0 THEN {}
                  ELSE {ParentOf(n)} \cup AncestorsOf(ParentOf(n))

\* n is hidden or lies below a hidden node.
InHiddenSubtree(n) == \E a \in AncestorsOf(n) \cup {n} : doc[a].visible = FALSE

\* The position of n among the children of its parent, and the path of
\* child positions from the root to n.
PosInParent(n) == CHOOSE i \in 1..Len(doc[ParentOf(n)].children) :
                        doc[ParentOf(n)].children[i] = n
RECURSIVE PathOf(_)
PathOf(n) == IF ParentOf(n) = 0 THEN <<>>
             ELSE Append(PathOf(ParentOf(n)), PosInParent(n))

\* a comes before b in depth-first pre-order: a is a proper ancestor of b,
\* or at the first place their paths differ a took the earlier child.
RECURSIVE PathBefore(_, _)
PathBefore(p, q) ==
    IF p = <<>> THEN q # <<>>
    ELSE IF q = <<>> THEN FALSE
    ELSE IF Head(p) # Head(q) THEN Head(p) < Head(q)
    ELSE PathBefore(Tail(p), Tail(q))

Before(a, b) == PathBefore(PathOf(a), PathOf(b))

\* Every finished or running call: its markup so far and its entries.
Outputs == {results[i] : i \in 1..Len(results)}
Conversions == {[html |-> calls[i].html, nodeStyles |-> calls[i].nodeStyles] : i \in 1..Len(calls)}
               \cup {[html |-> r.html, nodeStyles |-> r.nodeStyles] : r \in Outputs}

IsOpen(t) == t.k = "open"
OpenTags(html) == SelectSeq(html, IsOpen)
SeqNodes(s) == [i \in 1..Len(s) |-> s[i].node]
RangeOf(s) == {s[i] : i \in 1..Len(s)}

-----------------------------------------------------------------------------
(* C1 *)

\* C1 as stated: in every finished conversion the number of CSS rule
\* blocks equals the number of emitted markup elements.
C1_RuleBlockPerElement ==
    \A r \in Outputs : Len(r.css) = Len(OpenTags(r.html))

\* C1, amended: every finished conversion has exactly one nodeStyles entry
\* per emitted element (same node, same class, same order), pass-through
\* nodes have neither, and the rule blocks are exactly the entries whose
\* declaration list is not empty: an element whose node yields no
\* declaration has an entry but no rule block.
C1_EntryPerElement ==
    \A r \in Outputs :
      /\ Len(OpenTags(r.html)) = Len(r.nodeStyles)
      /\ \A i \in 1..Len(r.nodeStyles) :
            /\ OpenTags(r.html)[i].node = r.nodeStyles[i].node
            /\ OpenTags(r.html)[i].className = r.nodeStyles[i].className
            /\ doc[r.nodeStyles[i].node].type \in ContainerTypes \cup {"TEXT"}
      /\ \A b \in RangeOf(r.css) : Len(b.styles) > 0
      /\ Len(r.css) = Cardinality({i \in 1..Len(r.nodeStyles) :
              Len(generateNodeStyles(doc[r.nodeStyles[i].node],
                                     ParentOpt(r.nodeStyles[i].parent))) > 0})

\* A finished conversion that went through a pass-through node and emitted
\* an element with declarations and an element without any.
C1_Witness ==
    \E r \in Outputs :
      /\ doc[r.root].type \in WrapperTypes
      /\ Len(r.css) >= 1
      /\ Len(r.css) < Len(OpenTags(r.html))

-----------------------------------------------------------------------------
(* C2 *)

\* C2: a hidden node, and every node below a hidden node, has no markup
\* tag, no nodeStyles entry and no rule block in any conversion, and gets
\* no class: the table holds only ids of nodes that have an entry.
C2_HiddenSubtreeAbsent ==
    /\ \A c \in Conversions :
          /\ \A t \in RangeOf(c.html) : ~InHiddenSubtree(t.node)
          /\ \A e \in RangeOf(c.nodeStyles) : ~InHiddenSubtree(e.node)
    /\ \A r \in Outputs : \A b \in RangeOf(r.css) : ~InHiddenSubtree(b.node)
    /\ \A id \in DOMAIN cssClasses :
          \E n \in Nodes : doc[n].id = id /\ ~InHiddenSubtree(n)
    /\ calls # <<>> =>
          DOMAIN cssClasses = {doc[e.node].id : e \in RangeOf(Top(calls).nodeStyles)}

\* A finished conversion with output, of a document in which a hidden node
\* has a child that is itself visible and of an element-emitting type.
C2_Witness ==
    \E r \in Outputs : \E n \in Nodes : \E k \in KidSet(n) :
      /\ doc[n].visible = FALSE
      /\ doc[k].visible /\ doc[k].type \in ContainerTypes \cup {"TEXT"}
      /\ Len(r.html) > 0

-----------------------------------------------------------------------------
(* C3 *)

\* C3 as stated: in every conversion no two emitted elements carry the
\* same class.
C3_UniqueClassPerElement ==
    \A c \in Conversions :
      \A i, j \in 1..Len(OpenTags(c.html)) :
        i # j => OpenTags(c.html)[i].className # OpenTags(c.html)[j].className

-----------------------------------------------------------------------------
(* C5 *)

\* C5 as stated: every call starts with an empty table and a zero counter,
\* and calls on one converter do not interfere, re-entrant ones included:
\* all calls on the same input return the same markup and stylesheet.
C5_CallsIsolated ==
    /\ \A i \in 1..Len(calls) :
          (calls[i].frames = <<Frame(calls[i].root, 0, 0)>> /\ i = Len(calls)) =>
              (cssClasses = EmptyTable /\ classCounter = 0)
    /\ \A r1, r2 \in Outputs :
          r1.root = r2.root => (r1.html = r2.html /\ r1.css = r2.css)

-----------------------------------------------------------------------------
(* C6 *)

\* The nearest proper ancestor of n that emits an element, 0 when none.
RECURSIVE NearestRendered(_)
NearestRendered(n) ==
    IF ParentOf(n) = 0 THEN 0
    ELSE IF doc[ParentOf(n)].type \in {"RECTANGLE", "ELLIPSE", "VECTOR", "FRAME",
                                       "GROUP", "INSTANCE", "COMPONENT"}
    THEN ParentOf(n)
    ELSE NearestRendered(ParentOf(n))

\* C6 as stated: the parent paired with every entry is the nearest
\* ancestor that emitted an element, whatever transparent nodes lie
\* between.
C6_ParentIsNearestRendered ==
    \A c \in Conversions : \A e \in RangeOf(c.nodeStyles) :
        e.parent = NearestRendered(e.node)

-----------------------------------------------------------------------------
(* C7 *)

\* The index in html of the open and of the close tag of node n.
OpenAt(html, n) == CHOOSE i \in 1..Len(html) : html[i].k = "open" /\ html[i].node = n
CloseAt(html, n) == CHOOSE i \in 1..Len(html) : html[i].k = "close" /\ html[i].node = n

\* C7: in every finished conversion the elements appear in depth-first
\* pre-order of the document (siblings in child order), the element of a
\* node lies inside the element of every ancestor that emitted one and
\* outside the element of every other node, and the nodeStyles entries
\* and the rule blocks follow the same order.
C7_PreOrder ==
    \A r \in Outputs :
      LET tags == OpenTags(r.html)
          emitted == RangeOf(SeqNodes(tags))
      IN /\ \A i, j \in 1..Len(tags) : i < j => Before(tags[i].node, tags[j].node)
         /\ SeqNodes(tags) = SeqNodes(r.nodeStyles)
         /\ \A i, j \in 1..Len(r.css) : i < j => Before(r.css[i].node, r.css[j].node)
         /\ \A a, b \in emitted :
              a # b =>
                LET inside == OpenAt(r.html, a) < OpenAt(r.html, b)
                              /\ CloseAt(r.html, b) < CloseAt(r.html, a)
                IN inside <=> a \in AncestorsOf(b)

\* A finished conversion whose root element holds, in this order, a first
\* child and a second child with a child of its own, each with a rule.
C7_Witness ==
    \E r \in Outputs :
      /\ Len(r.css) = 4
      /\ Len(doc[1].children) = 2
      /\ SeqNodes(r.css) = <<1, 3, 2, 4>>

-----------------------------------------------------------------------------
(* generateNodeStyles on its own: one call on a node and a parent *)

Red == Color(1000, 0, 0, 1000)
Ink == Color(0, 0, 0, 500)

GradientPaint ==
    [Paint("GRADIENT_LINEAR") EXCEPT
        !.gradientStops = <<<<[position |-> 0, color |-> Red],
                              [position |-> 1000, color |-> Ink]>>>>,
        !.gradientHandlePositions = <<<<[x |-> 0, y |-> 0], [x |-> 1, y |-> 1]>>>>]

FillChoices ==
    { <<>>,
      <<SolidPaint(Red)>>,
      <<[SolidPaint(Ink) EXCEPT !.visible = FALSE]>>,
      <<Paint("SOLID")>>,
      <<GradientPaint>> }

StyleChoices ==
    { <<>>,
      <<TypeStyle>>,
      <<[TypeStyle EXCEPT !.textAlignHorizontal = "CENTER", !.textAlignVertical = "CENTER",
                          !.lineHeightPx = <<24000>>]>>,
      <<[TypeStyle EXCEPT !.textAlignHorizontal = "LEFT", !.letterSpacing = <<500>>,
                          !.lineHeightPercent = <<120000>>]>> }

BoxChoices == { <<>>, Box(30000, 20000, 100004, 40005) }

ParentBase == [BareNode("0:1", "FRAME") EXCEPT !.absoluteBoundingBox = Box(10000, 10000, 200000, 100000)]

ParentChoices ==
    { <<>>,
      <<ParentBase>>,
      <<[ParentBase EXCEPT !.paddingLeft = <<4000>>, !.paddingTop = <<0>>]>>,
      <<[ParentBase EXCEPT !.layoutMode = "VERTICAL", !.paddingLeft = <<4000>>]>>,
      <<[ParentBase EXCEPT !.layoutMode = "NONE", !.paddingTop = <<2500>>]>>,
      <<BareNode("0:1", "GROUP")>> }

\* Corner radii: none, all zero, top only, bottom only, one top corner, one
\* bottom corner, below the rounding step, below one pixel, all equal.
RadiiChoices ==
    { <<>>,
      << <<0, 0, 0, 0>> >>,
      << <<8000, 8000, 0, 0>> >>,
      << <<0, 0, 8000, 8000>> >>,
      << <<8000, 0, 0, 0>> >>,
      << <<0, 0, 0, 8000>> >>,
      << <<4, 0, 0, 0>> >>,
      << <<500, 500, 0, 0>> >>,
      << <<8000, 8000, 8000, 8000>> >> }

CornerRadiusChoices == { <<>>, <<0>>, <<4>>, <<8000>>, <<12345>> }

\* No stroke, a stroke with each alignment, and a stroke whose alignment is
\* the empty string (falsy, as a missing strokeAlign is).
StrokeChoices == { Undef, "", "INSIDE", "CENTER", "OUTSIDE" }

DropShadow ==
    [Effect("DROP_SHADOW") EXCEPT !.radius = <<4000>>, !.color = <<Ink>>,
                                  !.offset = <<[x |-> <<0>>, y |-> <<2000>>]>>]

EffectChoices == { <<>>, <<DropShadow>> }

WithStroke(node, align) ==
    IF align = Undef THEN node
    ELSE [node EXCEPT !.strokes = <<SolidPaint(Ink)>>,
                      !.strokeWeight = <<1000>>,
                      !.strokeAlign = align]

\* Geometry, paint and text: every type with every fill, style block,
\* bounding box, parent and layout mode.
PaintInputs ==
    { <<[BareNode("0:2", type) EXCEPT !.absoluteBoundingBox = box, !.fills = fills,
                                      !.style = style, !.layoutMode = mode], parent>> :
        type \in {"TEXT", "RECTANGLE", "FRAME"}, box \in BoxChoices, fills \in FillChoices,
        style \in StyleChoices, mode \in {Undef, "HORIZONTAL"}, parent \in ParentChoices }

\* Shape: every corner pattern with every uniform radius, stroke and effect list.
ShapeInputs ==
    { <<WithStroke([BareNode("0:2", type) EXCEPT !.absoluteBoundingBox = box,
                                                 !.rectangleCornerRadii = radii,
                                                 !.cornerRadius = radius,
                                                 !.effects = effects,
                                                 !.style = IF type = "TEXT" THEN <<TypeStyle>> ELSE <<>>], align),
        <<ParentBase>>>> :
        type \in {"RECTANGLE", "TEXT"}, box \in BoxChoices, radii \in RadiiChoices,
        radius \in CornerRadiusChoices, align \in StrokeChoices, effects \in EffectChoices }

\* Text alignment: every horizontal with every vertical alignment.
TextInputs ==
    { <<[BareNode("0:2", "TEXT") EXCEPT
            !.absoluteBoundingBox = box, !.fills = fills,
            !.style = <<[TypeStyle EXCEPT !.textAlignHorizontal = h,
                                          !.textAlignVertical = v]>>], parent>> :
        box \in BoxChoices, fills \in {<<>>, <<SolidPaint(Red)>>},
        h \in {Undef, "LEFT", "CENTER", "RIGHT", "JUSTIFIED"},
        v \in {Undef, "TOP", "CENTER", "BOTTOM"},
        parent \in {<<>>, <<ParentBase>>} }

\* Auto-layout containers: every primary with every counter alignment,
\* with and without spacing, padding, bounding box and parent.
LayoutInputs ==
    { <<[BareNode("0:2", "FRAME") EXCEPT
            !.absoluteBoundingBox = box, !.layoutMode = mode,
            !.primaryAxisAlignItems = primary, !.counterAxisAlignItems = counter,
            !.itemSpacing = spacing, !.paddingLeft = spacing], parent>> :
        box \in BoxChoices \cup {Box(10000, 20000, 50000, 50000)},
        mode \in {"HORIZONTAL", "VERTICAL"},
        primary \in {Undef, "MIN", "CENTER", "MAX", "SPACE_BETWEEN"},
        counter \in {Undef, "MIN", "CENTER", "MAX", "BASELINE"},
        spacing \in {<<>>, <<8000>>},
        parent \in ParentChoices }

StyleInputs == PaintInputs \cup ShapeInputs \cup TextInputs \cup LayoutInputs

InitStyles ==
    /\ ConvInit({MkDoc(<< <<>> >>, <<3>>, <<>>)})
    /\ \E in \in StyleInputs : sNode = in[1] /\ sParent = in[2]
    /\ sStyles = <<>>
    /\ sDone = FALSE

GenerateNodeStyles ==
    /\ ~sDone
    /\ sStyles' = generateNodeStyles(sNode, sParent)
    /\ sDone' = TRUE
    /\ UNCHANGED <<sNode, sParent>>
    /\ UNCHANGED convVars

NextStyles == GenerateNodeStyles

SpecStyles == InitStyles /\ [][NextStyles]_vars

\* The declarations of property p in the returned list.
Decls(p) == {i \in 1..Len(sStyles) : sStyles[i].prop = p}
Count(p) == Cardinality(Decls(p))

-----------------------------------------------------------------------------
(* C8 *)

\* C8: a node with a bounding box gets one width declaration; a non-text
\* node also gets a height and no min-height, a text node gets a
\* min-height and no height.
C8_WidthAndHeight ==
    (sDone /\ sNode.absoluteBoundingBox # <<>>) =>
        /\ Count("width") = 1
        /\ \A i \in Decls("width") :
              sStyles[i].val = <<Round2(sNode.absoluteBoundingBox[1].width)>>
        /\ IF sNode.type = "TEXT"
           THEN Count("min-height") = 1 /\ Count("height") = 0
           ELSE Count("height") = 1 /\ Count("min-height") = 0

\* A text node with a bounding box, a solid fill and a style block with a
\* line height, after generateNodeStyles returned.
C8_Witness ==
    /\ sDone
    /\ sNode.type = "TEXT"
    /\ sNode.absoluteBoundingBox # <<>>
    /\ Count("line-height") = 1
    /\ Count("color") = 1
    /\ Count("min-height") = 1

-----------------------------------------------------------------------------
(* C9 *)

FirstFillIsSolidColor(node) ==
    /\ Len(node.fills) > 0
    /\ node.fills[1].type = "SOLID"
    /\ node.fills[1].color # <<>>

\* C9 as stated: a text node whose first fill is solid with a color has a
\* color declaration made from that fill and no background-color, with or
\* without a style block.
C9_TextFillIsColor ==
    (sDone /\ sNode.type = "TEXT" /\ FirstFillIsSolidColor(sNode)) =>
        /\ Count("background-color") = 0
        /\ Count("color") = 1
        /\ \A i \in Decls("color") :
              sStyles[i].val = <<rgbaToString(sNode.fills[1].color[1], sNode.fills[1].opacity)>>

-----------------------------------------------------------------------------
(* C10 *)

\* The four corner values as printed: the rounded independent radii when
\* the node has four of them, else the rounded uniform radius (0 when the
\* node has none).
EffectiveRadii(node) ==
    IF node.rectangleCornerRadii # <<>> /\ Len(node.rectangleCornerRadii[1]) = 4
    THEN [i \in 1..4 |-> (node.rectangleCornerRadii[1][i] + 5) \div 10]
    ELSE IF node.cornerRadius # <<>>
    THEN [i \in 1..4 |-> (node.cornerRadius[1] + 5) \div 10]
    ELSE <<0, 0, 0, 0>>

\* C10 as stated: border-radius is declared exactly when one of the four
\* effective corner values is not zero, and the four-value form lists
\* them top-left, top-right, bottom-right, bottom-left.
C10_RadiusIffNonZero ==
    sDone =>
        /\ Count("border-radius") <= 1
        /\ Count("border-radius") = 1 <=> (\E i \in 1..4 : EffectiveRadii(sNode)[i] # 0)
        /\ \A i \in Decls("border-radius") :
              Len(sStyles[i].val) = 4 => sStyles[i].val = EffectiveRadii(sNode)

-----------------------------------------------------------------------------
(* C11 - C14: strokes *)

\* The node's first stroke is drawn and its alignment is INSIDE or unset.
InsideStroke(node) ==
    StrokeDrawn(node) /\ (node.strokeAlign = "INSIDE" \/ ~TruthyStr(node.strokeAlign))

CenterStroke(node) == StrokeDrawn(node) /\ node.strokeAlign = "CENTER"

OutsideStroke(node) == StrokeDrawn(node) /\ node.strokeAlign = "OUTSIDE"

\* Top rounded only: both top corners nonzero, both bottom corners zero.
TopRoundedOnly(node) ==
    LET r == EffectiveRadii(node)
    IN r[1] # 0 /\ r[2] # 0 /\ r[3] = 0 /\ r[4] = 0

\* Bottom rounded only: both bottom corners nonzero, both top corners zero.
BottomRoundedOnly(node) ==
    LET r == EffectiveRadii(node)
    IN r[1] = 0 /\ r[2] = 0 /\ r[3] # 0 /\ r[4] # 0

SideBorders == Count("border-left") + Count("border-right")
               + Count("border-top") + Count("border-bottom")

\* C11: with an INSIDE stroke, a node rounded at the top only gets
\* border-left, border-right and border-top, no border-bottom and no
\* uniform border; a node rounded at the bottom only gets border-left,
\* border-right and border-bottom, no border-top and no uniform border;
\* both get box-sizing: border-box.
C11_SplitBorders ==
    (sDone /\ InsideStroke(sNode)) =>
        /\ TopRoundedOnly(sNode) =>
              /\ Count("border-left") = 1 /\ Count("border-right") = 1
              /\ Count("border-top") = 1 /\ Count("border-bottom") = 0
              /\ Count("border") = 0 /\ Count("box-sizing") = 1
        /\ BottomRoundedOnly(sNode) =>
              /\ Count("border-left") = 1 /\ Count("border-right") = 1
              /\ Count("border-bottom") = 1 /\ Count("border-top") = 0
              /\ Count("border") = 0 /\ Count("box-sizing") = 1

\* An INSIDE stroke on a node rounded at the top only, styled.
C11_Witness ==
    /\ sDone
    /\ InsideStroke(sNode)
    /\ TopRoundedOnly(sNode)
    /\ Count("border-top") = 1
    /\ Count("border-radius") = 1

\* C12 as stated: with an INSIDE stroke, a node whose corners are neither
\* top rounded only nor bottom rounded only gets one uniform border, no
\* side border, and box-sizing: border-box.
C12_UniformBorder ==
    (sDone /\ InsideStroke(sNode) /\ ~TopRoundedOnly(sNode) /\ ~BottomRoundedOnly(sNode)) =>
        /\ Count("border") = 1
        /\ SideBorders = 0
        /\ Count("box-sizing") = 1

\* C13 as stated: with a CENTER stroke the returned list has one uniform
\* border, no side border and no box-sizing, whatever the corner pattern.
C13_CenterUniform ==
    (sDone /\ CenterStroke(sNode)) =>
        /\ Count("border") = 1
        /\ SideBorders = 0
        /\ Count("box-sizing") = 0

\* C14: with an OUTSIDE stroke there is no border, side border or
\* box-sizing declaration, and the stroke is a box-shadow with zero
\* offsets, zero blur and a spread equal to the stroke weight.
C14_OutsideRing ==
    (sDone /\ OutsideStroke(sNode)) =>
        /\ Count("border") = 0
        /\ SideBorders = 0
        /\ Count("box-sizing") = 0
        /\ \E i \in Decls("box-shadow") :
              /\ Len(sStyles[i].val) = 1
              /\ ~sStyles[i].val[1].inset
              /\ sStyles[i].val[1].x = 0 /\ sStyles[i].val[1].y = 0
              /\ sStyles[i].val[1].blur = 0
              /\ sStyles[i].val[1].spread = <<Round2(sNode.strokeWeight[1])>>
              /\ sStyles[i].val[1].color
                   = rgbaToString(sNode.strokes[1].color[1], sNode.strokes[1].opacity)

\* An OUTSIDE stroke on a node that also has a drop shadow and rounded top
\* corners, styled.
C14_Witness ==
    /\ sDone
    /\ OutsideStroke(sNode)
    /\ Len(sNode.effects) > 0
    /\ TopRoundedOnly(sNode)
    /\ Count("box-shadow") >= 1

-----------------------------------------------------------------------------
(* C15, C16: text *)

\* The declarations of property p whose value is v.
CountOf(p, v) == Cardinality({i \in Decls(p) : sStyles[i].val = v})

\* C15: for a text node (one that is not itself an auto-layout container)
\* there is exactly one display: flex when the horizontal alignment is
\* center or a vertical alignment is given, and none otherwise; horizontal
\* center also gives justify-content: center, and vertical TOP, CENTER,
\* BOTTOM give align-items flex-start, center, flex-end.
C15_TextFlex ==
    (sDone /\ TextBlockApplies(sNode) /\ ~TruthyStr(sNode.layoutMode)) =>
        LET h == sNode.style[1].textAlignHorizontal
            v == sNode.style[1].textAlignVertical
        IN /\ Count("display") = (IF h = "CENTER" \/ TruthyStr(v) THEN 1 ELSE 0)
           /\ CountOf("display", <<"flex">>) = Count("display")
           /\ h = "CENTER" => CountOf("justify-content", <<"center">>) = 1
           /\ v = "TOP" => CountOf("align-items", <<"flex-start">>) = 1
           /\ v = "CENTER" => CountOf("align-items", <<"center">>) = 1
           /\ v = "BOTTOM" => CountOf("align-items", <<"flex-end">>) = 1

\* A text node centered horizontally and aligned to the bottom, styled.
C15_Witness ==
    /\ sDone
    /\ TextBlockApplies(sNode)
    /\ ~TruthyStr(sNode.layoutMode)
    /\ sNode.style[1].textAlignHorizontal = "CENTER"
    /\ sNode.style[1].textAlignVertical = "BOTTOM"
    /\ Count("display") = 1
    /\ CountOf("align-items", <<"flex-end">>) = 1

\* C16 as stated: every text node with a non-empty declaration list has
\* white-space: pre-wrap and word-wrap: break-word in it, whatever optional
\* fields (style block, fills, bounding box) it has.
C16_TextWraps ==
    (sDone /\ sNode.type = "TEXT" /\ Len(sStyles) > 0) =>
        /\ CountOf("white-space", <<"pre-wrap">>) = 1
        /\ CountOf("word-wrap", <<"break-word">>) = 1

-----------------------------------------------------------------------------
(* C17: partially populated nodes *)

\* A gradient with stops and no handle points, and one with handle points
\* and no stops.
GradientNoHandles == [GradientPaint EXCEPT !.gradientHandlePositions = <<>>]
GradientNoStops == [GradientPaint EXCEPT !.gradientStops = <<>>]

MalformedKinds == 1..5

\* A complete frame; a group with no optional field; a text node with a
\* fill and no style block; a rectangle whose gradient has no handle points
\* and whose stroke has no color; a rectangle whose gradient has no stops
\* and whose shadows lack the offset or the color.
MalformedNode(k, n, id) ==
    CASE k = 1 -> [BareNode(id, "FRAME") EXCEPT !.absoluteBoundingBox = NodeBox(n),
                                                !.fills = <<SolidPaint(Red)>>]
      [] k = 2 -> BareNode(id, "GROUP")
      [] k = 3 -> [BareNode(id, "TEXT") EXCEPT !.absoluteBoundingBox = NodeBox(n),
                                               !.characters = <<"a">>,
                                               !.fills = <<SolidPaint(Ink)>>]
      [] k = 4 -> [BareNode(id, "RECTANGLE") EXCEPT
                      !.absoluteBoundingBox = NodeBox(n),
                      !.fills = <<GradientNoHandles>>,
                      !.strokes = <<Paint("SOLID")>>,
                      !.strokeWeight = <<1000>>]
      [] OTHER -> [BareNode(id, "RECTANGLE") EXCEPT
                      !.absoluteBoundingBox = NodeBox(n),
                      !.fills = <<GradientNoStops>>,
                      !.effects = <<[Effect("DROP_SHADOW") EXCEPT !.color = <<Ink>>],
                                    [Effect("INNER_SHADOW") EXCEPT
                                        !.offset = <<[x |-> <<1000>>, y |-> <<>>]>>]>>]

\* A root with two children, the second of which has a child.
DocsMalformed ==
    { [n \in 1..4 |->
          [MalformedNode(kind[n], n, NodeIds[n]) EXCEPT
              !.children = << <<3, 2>>, <<4>>, <<>>, <<>> >>[n]]] :
        kind \in [1..4 -> MalformedKinds] }

InitMalformed == ConvInit(DocsMalformed) /\ NoSingleCall

SpecMalformed == InitMalformed /\ [][Next]_vars

Has(styles, p) == \E i \in 1..Len(styles) : styles[i].prop = p

\* The nodes the traversal reaches: those with no text node above them
\* (a text node is a leaf of the output whatever children it has).
Reached(n) == \A a \in AncestorsOf(n) : doc[a].type # "TEXT"

GeometryProps == {"position", "left", "top", "width", "height", "min-height"}
TextProps == {"font-family", "font-size", "font-weight", "letter-spacing", "line-height",
              "text-align", "color", "white-space", "word-wrap"}
StrokeProps == {"border", "border-left", "border-right", "border-top", "border-bottom",
                "box-sizing", "box-shadow"}

\* What holds of every finished conversion whatever the gradient rule is:
\* it returned, every reached node has its entry, and a rule block has no
\* declaration that depends on a field its node lacks, while it keeps the
\* width of a node that has a bounding box.
DegradesByOmission(r) ==
    /\ r.outcome = "returned"
    /\ {r.nodeStyles[i].node : i \in 1..Len(r.nodeStyles)} = {n \in Nodes : Reached(n)}
    /\ Len(OpenTags(r.html)) = Len(r.nodeStyles)
    /\ \A n \in Nodes :
          (Reached(n) /\ HasGeometry(doc[n])) =>
              \E b \in RangeOf(r.css) : b.node = n /\ Has(b.styles, "width")
    /\ \A b \in RangeOf(r.css) :
          LET node == doc[b.node]
          IN /\ node.absoluteBoundingBox = <<>> =>
                  \A p \in GeometryProps : ~Has(b.styles, p)
             /\ (node.type = "TEXT" /\ node.style = <<>>) =>
                  \A p \in TextProps : ~Has(b.styles, p)
             /\ (Len(node.fills) > 0 /\ node.fills[1].gradientStops = <<>>
                   /\ node.fills[1].type = "GRADIENT_LINEAR") =>
                  ~Has(b.styles, "background")
             /\ (Len(node.strokes) > 0 /\ node.strokes[1].color = <<>>
                   /\ node.effects = <<>>) =>
                  \A p \in StrokeProps : ~Has(b.styles, p)
             /\ (\A i \in 1..Len(node.effects) :
                     node.effects[i].offset = <<>> \/ node.effects[i].color = <<>>) =>
                  ~Has(b.styles, "box-shadow")

HasGradientWithoutHandles(node) ==
    /\ Len(node.fills) > 0
    /\ node.fills[1].type = "GRADIENT_LINEAR"
    /\ node.fills[1].gradientStops # <<>>
    /\ node.fills[1].gradientHandlePositions = <<>>

-----------------------------------------------------------------------------
(* C18: cyclic input *)

\* The depth at which the engine gives up on a growing call stack and
\* throws RangeError (maximum call stack size exceeded).
MaxStack == 6

\* Child lists in which a node is reachable from itself: a node that is
\* its own child, a root whose child has the root as child, and a root
\* whose second child has the first child and the root as children.
ShapesCyclic == { << <<1>> >>,
                  << <<2>>, <<1>> >>,
                  << <<2, 3>>, <<>>, <<2, 1>> >> }

DocsCyclic ==
    UNION { {MkDoc(shape, kind, <<>>) : kind \in [1..Len(shape) -> {1, 3, 5, 6}]} :
            shape \in ShapesCyclic }

\* The recursive call for the next child, while the stack has room.
VisitChildWithinStack ==
    /\ Running
    /\ Len(Top(calls).frames) < MaxStack
    /\ VisitChild

\* The recursive call that exceeds the stack: the engine throws RangeError,
\* which nothing in the converter catches.
StackOverflow ==
    /\ Running
    /\ LET c == Top(calls)
           f == Top(c.frames)
       IN /\ f.phase = "kids"
          /\ f.next <= Len(doc[f.n].children)
          /\ Len(c.frames) >= MaxStack
          /\ results' = Append(results,
                [root |-> c.root, level |-> Len(calls), outcome |-> "RangeError",
                 html |-> <<>>, css |-> <<>>, nodeStyles |-> c.nodeStyles])
    /\ calls' = Pop(calls)
    /\ UNCHANGED <<doc, cssClasses, classCounter, started>>
    /\ UNCHANGED styleVars

InitCyclic == ConvInit(DocsCyclic) /\ NoSingleCall

NextCyclic ==
    \/ ConvertWithStyles
    \/ EnterNode
    \/ VisitChildWithinStack
    \/ LeaveNode
    \/ Return
    \/ StackOverflow

SpecCyclic == InitCyclic /\ [][NextCyclic]_vars

\* The children the traversal visits: none below a hidden node or a text
\* node.
KidsVisited(m) ==
    IF doc[m].visible /\ doc[m].type # "TEXT" THEN KidSet(m) ELSE {}

\* The nodes the traversal gets to from the set S in at most k calls.
RECURSIVE ReachFrom(_, _)
ReachFrom(S, k) ==
    IF k = 0 THEN S
    ELSE ReachFrom(S \cup UNION {KidsVisited(m) : m \in S}, k - 1)

\* The traversal from the root gets to a node that it gets to again
\* through that node's own children.
Cyclic ==
    \E n \in ReachFrom({1}, Len(doc)) : n \in ReachFrom(KidsVisited(n), Len(doc))

\* C18 as stated: the conversion of a document in which a node is
\* reachable again through its own children ends in a StructureError, and
\* the recursion never goes deeper than the document has nodes.
C18_CycleIsStructureError ==
    Cyclic =>
        /\ \A r \in Outputs : r.outcome = "StructureError"
        /\ \A i \in 1..Len(calls) : Len(calls[i].frames) <= Len(doc)

-----------------------------------------------------------------------------
(* C19, C20: position under a parent *)

AutoLayoutModes == {"HORIZONTAL", "VERTICAL"}

\* C19 as stated: a styled node whose parent has layout mode HORIZONTAL or
\* VERTICAL gets no position: absolute, left or top (the node itself not
\* being an auto-layout container, for which the forced position of the
\* layout block is a case of its own), while a node whose parent has layout
\* mode NONE is placed as under a parent without auto-layout: absolutely
\* when it has a bounding box.
C19_AutoLayoutParent ==
    (sDone /\ sParent # <<>> /\ Len(sStyles) > 0) =>
        /\ (sParent[1].layoutMode \in AutoLayoutModes /\ ~TruthyStr(sNode.layoutMode)) =>
              /\ CountOf("position", <<"absolute">>) = 0
              /\ Count("left") = 0
              /\ Count("top") = 0
        /\ (sParent[1].layoutMode = "NONE" /\ HasGeometry(sNode)) =>
              CountOf("position", <<"absolute">>) = 1

\* C20 as stated: a node with a bounding box whose parent has a bounding
\* box and no auto-layout (layout mode absent or NONE) gets position:
\* absolute, left = node.x - parent.x - parent.paddingLeft and top =
\* node.y - parent.y - parent.paddingTop (padding 0 when absent), each
\* rounded to 0.01.
C20_AbsoluteOffsets ==
    (/\ sDone /\ HasGeometry(sNode) /\ HasParentBox(sParent)
     /\ sParent[1].layoutMode \notin AutoLayoutModes) =>
        LET box == sNode.absoluteBoundingBox[1]
            parentBox == sParent[1].absoluteBoundingBox[1]
            paddingLeft == IF sParent[1].paddingLeft = <<>> THEN 0 ELSE sParent[1].paddingLeft[1]
            paddingTop == IF sParent[1].paddingTop = <<>> THEN 0 ELSE sParent[1].paddingTop[1]
        IN /\ Count("position") = 1
           /\ CountOf("position", <<"absolute">>) = 1
           /\ Count("left") = 1
           /\ CountOf("left", <<(box.x - parentBox.x - paddingLeft + 5) \div 10>>) = 1
           /\ Count("top") = 1
           /\ CountOf("top", <<(box.y - parentBox.y - paddingTop + 5) \div 10>>) = 1

-----------------------------------------------------------------------------
(* C21: the position forced by the layout block *)

CountIn(styles, p) == Cardinality({i \in 1..Len(styles) : styles[i].prop = p})

\* C21 as stated: when the node and its parent both have an auto-layout
\* mode and no position is declared when the layout block is reached, the
\* block puts position: absolute first, followed by left and top = node
\* box - parent box, each left out exactly when it is zero; in every other
\* case the block adds no position, left or top.
C21_ForcedPosition ==
    sDone =>
        LET before == StylesBeforeLayout(sNode, sParent)
            after == Layout(sNode, sParent, before)
            forced == /\ sParent # <<>>
                      /\ sParent[1].layoutMode \in AutoLayoutModes
                      /\ sNode.layoutMode \in AutoLayoutModes
                      /\ CountIn(before, "position") = 0
            left == Round2(sNode.absoluteBoundingBox[1].x - sParent[1].absoluteBoundingBox[1].x)
            top == Round2(sNode.absoluteBoundingBox[1].y - sParent[1].absoluteBoundingBox[1].y)
        IN IF forced
           THEN /\ after[1] = D("position", <<"absolute">>)
                /\ CountIn(after, "position") = 1
                /\ (HasGeometry(sNode) /\ HasParentBox(sParent)) =>
                      /\ CountIn(after, "left") = (IF left = 0 THEN 0 ELSE 1)
                      /\ CountIn(after, "top") = (IF top = 0 THEN 0 ELSE 1)
                      /\ left # 0 => after[2] = D("left", <<left>>)
                      /\ top # 0 => after[IF left # 0 THEN 3 ELSE 2] = D("top", <<top>>)
           ELSE \A p \in {"position", "left", "top"} :
                   CountIn(after, p) = CountIn(before, p)

\* What the block does when both modes are set and no position is
\* declared: the position comes first, and since only a node without a
\* bounding box reaches the block without a position, no offset follows.
ForcedPositionHasNoOffsets ==
    sDone =>
        LET before == StylesBeforeLayout(sNode, sParent)
            after == Layout(sNode, sParent, before)
        IN (/\ sParent # <<>>
            /\ sParent[1].layoutMode \in AutoLayoutModes
            /\ sNode.layoutMode \in AutoLayoutModes
            /\ CountIn(before, "position") = 0) =>
              /\ after[1] = D("position", <<"absolute">>)
              /\ ~HasGeometry(sNode)
              /\ CountIn(after, "left") = 0 /\ CountIn(after, "top") = 0

-----------------------------------------------------------------------------
(* C22: alignment of an auto-layout container *)

AutoLayoutContainer(node) == node.layoutMode \in AutoLayoutModes

\* C22 as stated: an auto-layout container has one justify-content mapped
\* from its primary-axis alignment (MIN, CENTER, MAX, SPACE_BETWEEN to
\* flex-start, center, flex-end, space-between) and one align-items mapped
\* from its counter-axis alignment (MIN, CENTER, MAX to flex-start, center,
\* flex-end), each flex-start when the alignment is not given.
C22_AlignmentDeclared ==
    (sDone /\ AutoLayoutContainer(sNode) /\ sNode.type # "TEXT") =>
        LET primary == sNode.primaryAxisAlignItems
            counter == sNode.counterAxisAlignItems
            justify == CASE primary = "CENTER" -> "center"
                         [] primary = "MAX" -> "flex-end"
                         [] primary = "SPACE_BETWEEN" -> "space-between"
                         [] OTHER -> "flex-start"
            align == CASE counter = "CENTER" -> "center"
                       [] counter = "MAX" -> "flex-end"
                       [] OTHER -> "flex-start"
        IN /\ Count("justify-content") = 1
           /\ CountOf("justify-content", <<justify>>) = 1
           /\ Count("align-items") = 1
           /\ CountOf("align-items", <<align>>) = 1

\* The same for containers that give both alignments.
AlignmentMappedWhenGiven ==
    (/\ sDone /\ AutoLayoutContainer(sNode) /\ sNode.type # "TEXT"
     /\ TruthyStr(sNode.primaryAxisAlignItems)
     /\ TruthyStr(sNode.counterAxisAlignItems)) => C22_AlignmentDeclared

-----------------------------------------------------------------------------
(* C23: one declaration per property *)

DeclaredProps == {sStyles[i].prop : i \in 1..Len(sStyles)}

\* C23 as stated: no property is declared twice in the returned list, so
\* that all shadow terms of a node are in one box-shadow declaration
\* (stated for the nodes of the data model: a text node is not an
\* auto-layout container).
C23_OneDeclarationPerProperty ==
    (sDone /\ ~(sNode.type = "TEXT" /\ TruthyStr(sNode.layoutMode))) =>
        \A p \in DeclaredProps : Count(p) = 1

\* The same with box-shadow left out: every other property is declared at
\* most once.
OneDeclarationExceptShadow ==
    (sDone /\ ~(sNode.type = "TEXT" /\ TruthyStr(sNode.layoutMode))) =>
        \A p \in DeclaredProps \ {"box-shadow"} : Count(p) = 1
====
